---- MODULE Spec2Model ----
(***************************************************************************)
(* State-machine model of src/main.py (AxonDataCollector): the HTTP fetch  *)
(* layer with its one-shot retry, the exists-check / delete / append       *)
(* sequence of load_to_bigquery, and the Daily orchestration of            *)
(* collect_daily_data behind the Flask routes.                             *)
(*                                                                         *)
(* Every call that leaves the process (an HTTP request, a BigQuery query   *)
(* or load job) is one step, and its answer is chosen by the environment.  *)
(* The state variables hold the locals of the invocation taking the step;  *)
(* `other` holds the locals of a second invocation of the service, and the *)
(* specifications differ in whether two invocations may overlap.           *)
(***************************************************************************)
EXTENDS Integers, Sequences, FiniteSets, TLC

\* ------------------------------------------------------------------ bounds
NumDates == 2        \* calendar days before today that have data upstream
MaxApps == 2         \* longest APPS_CONFIG list explored
MaxRows == 1         \* most rows in one CSV response
MaxRuns == 2         \* route invocations explored, one after the other

\* ------------------------------------------------------- program constants
RateLimitSleep == 60
ServerErrorSleep == 30

Dates == 1..NumDates
Today == NumDates + 1

\* date = (datetime.utcnow() - timedelta(days=1)).strftime('%Y-%m-%d')
Yesterday == Today - 1

None == "None"

Platforms == {"android", "ios", "fireos"}

\* The registry entries explored: two sibling applications on one platform and
\* an entry whose package is the empty string (APPS_CONFIG is only checked for
\* the presence of the two fields and for the platform's value).
AppEntries ==
    { [platform |-> "android", package |-> "a"],
      [platform |-> "android", package |-> "b"],
      [platform |-> "android", package |-> ""] }

\* The per-entry validation of __init__: both fields present (every entry
\* of AppEntries has them) and platform one of the three known values.
ValidApp(app) == app.platform \in Platforms

BoundedSeq(S, n) == UNION { [1..k -> S] : k \in 0..n }

\* The HTTP status codes an upstream answer may carry.
Statuses == {200, 401, 403, 404, 429, 500}

\* The three pointer fields of the user-level JSON answer.
PointerFields == {"ad_revenue_report_url", "url", "fb_estimated_revenue_url"}

\* A DataFrame, or None.  Of its columns the model keeps those the storage
\* queries read (report_date, application, platform), query_type, loaded_at
\* and the row's position; data_source, one value for the whole batch, is
\* kept beside the rows.
NoneDF == [none |-> TRUE, rows |-> << >>, data_source |-> None]
DF(rows, data_source) == [none |-> FALSE, rows |-> rows, data_source |-> data_source]

NoResponse == [status |-> 0, body |-> None]

VARIABLES
    apps,           \* self.apps, the registry loaded by __init__
    tables,         \* the rows stored in the two BigQuery tables
    pc,             \* position of the running invocation
    date,           \* collect_daily_data: date
    force_update,   \* collect_daily_data: force_update
    idx,            \* collect_daily_data: position of `app` in `apps`
    source,         \* which fetch is in progress
    response,       \* fetch_*: response (status and body of the last answer)
    csv_response,   \* fetch_user_level_data: csv_response
    df,             \* the batch a fetch returned
    exists,         \* load_to_bigquery: exists
    stats,          \* collect_daily_data: stats
    runs,           \* invocations started so far
    netLog,         \* requests sent and sleeps taken by the fetch in progress
    opLog,          \* storage operations of the load_to_bigquery call in progress
    loadPre,        \* the tables as they were when that call began
    appended,       \* keys of the appends that succeeded in the run in progress
    fault,          \* whether a storage operation of the run in progress failed
    runStart,       \* the tables as they were when the run in progress began
    prev,           \* date and force_update of the previous run
    run,            \* which collect_daily_data call this is (its clock reading)
    fetchLog,       \* the fetches the run in progress has attempted, in order
    callLog,        \* the collect_daily_data calls of the invocation, in order
    days,           \* backfill_data: days
    i,              \* backfill_data: i, 0 outside the loop
    total_stats,    \* backfill_data: total_stats
    hist,           \* whether a storage operation ever failed, whether
                    \* invocations ever overlapped, whether an existence
                    \* check ever ran between the other invocation's
                    \* delete and append
    other           \* the locals of the second invocation

\* The locals of backfill_data.
backfillVars == << days, i, total_stats >>

vars == << apps, tables, pc, date, force_update, idx, source, response,
           csv_response, df, exists, stats, runs, netLog, opLog, loadPre,
           appended, fault, runStart, prev, run, fetchLog, callLog,
           backfillVars, hist, other >>

\* ---------------------------------------------------------------- storage
EmptyTables == [t \in {"user_level_ad_revenue", "revenue_reporting"} |-> {}]

\* Python truthiness of an optional string argument.
Truthy(x) == x # None /\ x # ""

\* check_data_exists answering 'no rows' whatever is stored.
check_data_exists_NeverFinds(tbl, table_name, d, application, platform) == FALSE

\* check_data_exists when the COUNT(*) query answers: count > 0.  The WHERE
\* clause names application and platform only for the per-app table and only
\* when both arguments are truthy; otherwise it selects the whole date.
check_data_exists(tbl, table_name, d, application, platform) ==
    IF table_name = "user_level_ad_revenue" /\ Truthy(application) /\ Truthy(platform)
    THEN Cardinality({ r \in tbl[table_name] :
                         /\ r.report_date = d
                         /\ r.application = application
                         /\ r.platform = platform }) > 0
    ELSE Cardinality({ r \in tbl[table_name] : r.report_date = d }) > 0

\* delete_date_data deleting nothing.
delete_date_data_DeletesNothing(tbl, table_name, d, application, platform) == tbl

\* delete_date_data when the DELETE job succeeds: the tables without the rows
\* its WHERE clause selects.
delete_date_data(tbl, table_name, d, application, platform) ==
    IF table_name = "user_level_ad_revenue" /\ Truthy(application) /\ Truthy(platform)
    THEN [tbl EXCEPT ![table_name] =
             { r \in @ : ~ ( /\ r.report_date = d
                            /\ r.application = application
                            /\ r.platform = platform ) }]
    ELSE [tbl EXCEPT ![table_name] = { r \in @ : r.report_date # d }]

SeqToSet(s) == { s[j] : j \in 1..Len(s) }

\* load_table_from_dataframe with WRITE_APPEND when the load job succeeds.
load_table_from_dataframe(tbl, rows, table_name) ==
    [tbl EXCEPT ![table_name] = @ \cup SeqToSet(rows)]

\* The arguments collect_daily_data passes to load_to_bigquery for the
\* source being processed.
TableArg == IF source = "user_level" THEN "user_level_ad_revenue" ELSE "revenue_reporting"
ApplicationArg == IF source = "user_level" THEN apps[idx].package ELSE None
PlatformArg == IF source = "user_level" THEN apps[idx].platform ELSE None

\* The IngestionKey of the load_to_bigquery call in progress.
CurrentKey == << TableArg, date, ApplicationArg, PlatformArg >>

\* ------------------------------------------------------------------ clock
\* datetime.utcnow() as read by the fetch in progress: one tick per fetch of
\* a collect_daily_data call, later calls later.
SourceSlot == IF source = "user_level" THEN idx
              ELSE IF source = "basic" THEN MaxApps + 1 ELSE MaxApps + 2
utcnow == (run - 1) * (MaxApps + 2) + SourceSlot

\* ------------------------------------------------------------- HTTP layer
Get(url, status) == [ev |-> "get", url |-> url, status |-> status]
Sleep(secs) == [ev |-> "sleep", url |-> None, status |-> secs]

\* requests.get raised (timeout, connection error): no response object.
Raised == 0

\* response.raise_for_status(): raises for 4xx and 5xx.
RaisesForStatus(status) == status >= 400 /\ status < 600

\* StatusBranch with 401 and 403 falling through to the retry of the error
\* statuses.
StatusBranch_AuthRetried(status) ==
    IF status = 429 THEN "retry_60"
    ELSE IF status >= 400 THEN "retry_30"
    ELSE "proceed"

\* What the status dispatch that follows the first requests.get does.
StatusBranch(status) ==
    IF status = 429 THEN "retry_60"
    ELSE IF status = 401 THEN "return_none"
    ELSE IF status = 403 THEN "return_none"
    ELSE IF status >= 500 THEN "retry_30"
    ELSE "proceed"

\* Bodies of upstream answers.  A user-level JSON body is the set of pointer
\* fields it carries with a non-empty value; a user-level CSV is its number
\* of rows; an aggregate CSV is its rows' `day` values, or no `day` column.
\* The aggregate report is asked for start = end = d, and upstream answers
\* with rows of that day.
JsonBodies == SUBSET PointerFields
CsvBodies == 0..MaxRows
AggBodies(d) == [hasDay : BOOLEAN, days : BoundedSeq({d}, MaxRows)]

\* data_source: ad_revenue_report_url > url > fb_estimated_revenue_url.
DataSource(data) ==
    IF "ad_revenue_report_url" \in data THEN "ad_revenue_report_url"
    ELSE IF "url" \in data THEN "url"
    ELSE IF "fb_estimated_revenue_url" \in data THEN "fb_estimated_revenue_url"
    ELSE None

\* The normalized user-level batch: one record per CSV row, stamped with the
\* request's date, application and platform and the clock.
UserLevelRows(n, d, app, plat, now) ==
    [ j \in 1..n |-> [ report_date |-> d,
                       application |-> app,
                       platform |-> plat,
                       loaded_at |-> now,
                       row |-> j ] ]

\* The normalized aggregate batch: `day` renamed to report_date and parsed,
\* query_type and loaded_at added.
AggregateRows(day, query_type, now) ==
    [ j \in 1..Len(day) |-> [ report_date |-> day[j],
                               query_type |-> query_type,
                               loaded_at |-> now,
                               row |-> j ] ]

\* fetch_revenue_reporting_basic / _network from raise_for_status on: the
\* value returned for the final response.
AggregateResult(resp, query_type, now) ==
    IF resp.status = Raised \/ RaisesForStatus(resp.status) THEN NoneDF
    ELSE IF Len(resp.body.days) = 0 THEN NoneDF
    ELSE IF ~ resp.body.hasDay THEN NoneDF
    ELSE DF(AggregateRows(resp.body.days, query_type, now), None)

\* UserLevelResult without the `if len(df) == 0: return None` test.
UserLevelResult_KeepsEmpty(csv, d, app, plat, now, data_source) ==
    IF csv.status = Raised \/ RaisesForStatus(csv.status) THEN NoneDF
    ELSE DF(UserLevelRows(csv.body, d, app, plat, now), data_source)

\* fetch_user_level_data from csv_response.raise_for_status() on.
UserLevelResult(csv, d, app, plat, now, data_source) ==
    IF csv.status = Raised \/ RaisesForStatus(csv.status) THEN NoneDF
    ELSE IF csv.body = 0 THEN NoneDF
    ELSE DF(UserLevelRows(csv.body, d, app, plat, now), data_source)

\* The answers the environment may give to a request: no answer at all, an
\* error status, or 200 with one of the bodies.
Answers(bodies) ==
    { [status |-> Raised, body |-> None] }
    \cup { [status |-> s, body |-> None] : s \in Statuses \ {200} }
    \cup { [status |-> 200, body |-> b] : b \in bodies }

\* ------------------------------------------------------------------- Init
\* ZeroStats without the user_level_failed counter.
ZeroStats_NoFailedCounter ==
    [ user_level_success |-> 0,
      user_level_no_data |-> 0,
      revenue_basic_success |-> FALSE,
      revenue_network_success |-> FALSE ]

\* stats as collect_daily_data builds it before the first fetch.
ZeroStats == [ user_level_success |-> 0,
               user_level_failed |-> 0,
               user_level_no_data |-> 0,
               revenue_basic_success |-> FALSE,
               revenue_network_success |-> FALSE ]

\* The value collect_daily_data returns when the registry is empty.
NoAppsResult == [ success |-> FALSE, message |-> "no apps" ]

NoPrev == [date |-> 0, force_update |-> FALSE]

\* total_stats before backfill_data has built it.
NoTotalStats == [total_days |-> 0, success_days |-> 0, failed_days |-> 0]

\* The locals of an invocation that has not started, or has returned.
IdleLocals ==
    [ pc |-> "idle", date |-> 0, force_update |-> FALSE, idx |-> 0,
      source |-> None, response |-> NoResponse, csv_response |-> NoResponse,
      df |-> NoneDF, exists |-> FALSE, stats |-> ZeroStats, netLog |-> << >>,
      opLog |-> << >>, loadPre |-> EmptyTables, appended |-> << >>,
      fault |-> FALSE, runStart |-> EmptyTables, run |-> 0,
      fetchLog |-> << >>, callLog |-> << >>, days |-> 0, i |-> 0,
      total_stats |-> NoTotalStats ]

\* The state once AxonDataCollector() is constructed: a validated registry,
\* nothing stored yet, no run in progress.
Init ==
    /\ apps \in { s \in BoundedSeq(AppEntries, MaxApps) :
                    \A j \in 1..Len(s) : ValidApp(s[j]) }
    /\ tables = EmptyTables
    /\ pc = "idle"
    /\ date = 0
    /\ force_update = FALSE
    /\ idx = 0
    /\ source = None
    /\ response = NoResponse
    /\ csv_response = NoResponse
    /\ df = NoneDF
    /\ exists = FALSE
    /\ stats = ZeroStats
    /\ runs = 0
    /\ netLog = << >>
    /\ opLog = << >>
    /\ loadPre = EmptyTables
    /\ appended = << >>
    /\ fault = FALSE
    /\ runStart = EmptyTables
    /\ prev = NoPrev
    /\ run = 0
    /\ fetchLog = << >>
    /\ callLog = << >>
    /\ days = 0
    /\ i = 0
    /\ total_stats = NoTotalStats
    /\ hist = [fault |-> FALSE, overlap |-> FALSE, window |-> FALSE]
    /\ other = IdleLocals

\* -------------------------------------------------------- collect_daily_data
\* Entry of collect_daily_data(date=d, force_update=fu): the empty-registry
\* early return, else the statistics counters and the first application.
collect_daily_data(d, fu) ==
    /\ runs' = runs + 1
    /\ date' = d
    /\ force_update' = fu
    /\ runStart' = tables
    /\ appended' = << >>
    /\ fault' = FALSE
    /\ IF Len(apps) = 0
       THEN /\ stats' = NoAppsResult
            /\ pc' = "done"
            /\ UNCHANGED << idx, source >>
       ELSE /\ stats' = ZeroStats
            /\ idx' = 1
            /\ source' = "user_level"
            /\ pc' = "ul_get"
    /\ UNCHANGED << apps, tables, response, csv_response, df, exists, netLog,
                    opLog, loadPre, prev,
                    backfillVars, other >>
    /\ run' = runs + 1
    /\ fetchLog' = << >>
    /\ callLog' = Append(callLog, << d, fu >>)
    /\ hist' = [hist EXCEPT !.overlap = @ \/ other.pc # "idle"]

\* Route '/': collect_daily_data(force_update=False) for yesterday.
run_collection ==
    /\ pc = "idle"
    /\ runs < MaxRuns
    /\ collect_daily_data(Yesterday, FALSE)

\* Route '/force-update': collect_daily_data(force_update=True) for yesterday.
force_update_route ==
    /\ pc = "idle"
    /\ runs < MaxRuns
    /\ collect_daily_data(Yesterday, TRUE)

\* The route handler of '/' or '/force-update' returns once
\* collect_daily_data has returned its statistics (i = 0: the call was not
\* made by backfill_data); the invocation's locals are gone.
route_return ==
    /\ pc = "done"
    /\ i = 0
    /\ pc' = "idle"
    /\ prev' = [date |-> date, force_update |-> force_update]
    /\ stats' = ZeroStats
    /\ source' = None
    /\ idx' = 0
    /\ date' = 0
    /\ force_update' = FALSE
    /\ appended' = << >>
    /\ fault' = FALSE
    /\ runStart' = EmptyTables
    /\ UNCHANGED << apps, tables, response, csv_response, df, exists, runs,
                    netLog, opLog, loadPre,
                    backfillVars, hist, other >>
    /\ run' = 0
    /\ fetchLog' = << >>
    /\ callLog' = << >>

\* ------------------------------------------------------ fetch_user_level_data
\* What follows the final answer of the metadata request: raise_for_status,
\* response.json(), the choice of the pointer field.
UserLevelMeta(r) ==
    IF r.status = Raised \/ RaisesForStatus(r.status) THEN "return_none"
    ELSE IF DataSource(r.body) = None THEN "return_none"
    ELSE "download"

\* The first requests.get of fetch_user_level_data and its status dispatch.
fetch_user_level_data_get ==
    /\ pc = "ul_get"
    /\ \E r \in Answers(JsonBodies) :
         LET b == IF r.status = Raised THEN "return_none" ELSE StatusBranch(r.status) IN
         /\ response' = r
         /\ netLog' = << Get("api", r.status) >>
                      \o ( IF b = "retry_60" THEN << Sleep(RateLimitSleep) >>
                           ELSE IF b = "retry_30" THEN << Sleep(ServerErrorSleep) >>
                           ELSE << >> )
         /\ pc' = IF b \in {"retry_60", "retry_30"} THEN "ul_retry"
                  ELSE IF b = "proceed" /\ UserLevelMeta(r) = "download" THEN "ul_csv"
                  ELSE "ul_ret"
    /\ df' = NoneDF
    /\ UNCHANGED << apps, tables, date, force_update, idx, source, csv_response,
                    exists, stats, runs, opLog, loadPre, appended, fault,
                    runStart, prev, run, callLog, backfillVars, hist, other >>
    /\ fetchLog' = Append(fetchLog, << "user_level", idx >>)

\* fetch_user_level_data_retry giving up after the second answer, whatever
\* it is.
fetch_user_level_data_retry_GivesUp ==
    /\ pc = "ul_retry"
    /\ \E r \in Answers(JsonBodies) :
         /\ response' = r
         /\ netLog' = Append(netLog, Get("api", r.status))
    /\ pc' = "ul_ret"
    /\ df' = NoneDF
    /\ UNCHANGED << apps, tables, date, force_update, idx, source, csv_response,
                    exists, stats, runs, opLog, loadPre, appended, fault,
                    runStart, prev,
                    run, fetchLog, callLog, backfillVars, hist, other >>

\* The second requests.get, sent after the sleep.
fetch_user_level_data_retry ==
    /\ pc = "ul_retry"
    /\ \E r \in Answers(JsonBodies) :
         /\ response' = r
         /\ netLog' = Append(netLog, Get("api", r.status))
         /\ pc' = IF UserLevelMeta(r) = "download" THEN "ul_csv" ELSE "ul_ret"
    /\ df' = NoneDF
    /\ UNCHANGED << apps, tables, date, force_update, idx, source, csv_response,
                    exists, stats, runs, opLog, loadPre, appended, fault,
                    runStart, prev,
                    run, fetchLog, callLog, backfillVars, hist, other >>

\* The CSV download and the normalization of its rows.
fetch_user_level_data_csv ==
    /\ pc = "ul_csv"
    /\ \E c \in Answers(CsvBodies) :
         /\ csv_response' = c
         /\ netLog' = Append(netLog, Get("csv", c.status))
         /\ df' = UserLevelResult(c, date, apps[idx].package, apps[idx].platform,
                                  utcnow, DataSource(response.body))
    /\ pc' = "ul_ret"
    /\ UNCHANGED << apps, tables, date, force_update, idx, source, response,
                    exists, stats, runs, opLog, loadPre, appended, fault,
                    runStart, prev,
                    run, fetchLog, callLog, backfillVars, hist, other >>

\* ------------------------------------------- fetch_revenue_reporting_basic
fetch_revenue_reporting_basic_get ==
    /\ pc = "basic_get"
    /\ \E r \in Answers(AggBodies(date)) :
         LET b == IF r.status = Raised THEN "return_none" ELSE StatusBranch(r.status) IN
         /\ response' = r
         /\ netLog' = << Get("api", r.status) >>
                      \o ( IF b = "retry_60" THEN << Sleep(RateLimitSleep) >>
                           ELSE IF b = "retry_30" THEN << Sleep(ServerErrorSleep) >>
                           ELSE << >> )
         /\ pc' = IF b \in {"retry_60", "retry_30"} THEN "basic_retry" ELSE "basic_ret"
         /\ df' = IF b = "proceed" THEN AggregateResult(r, "basic", utcnow) ELSE NoneDF
    /\ UNCHANGED << apps, tables, date, force_update, idx, source, csv_response,
                    exists, stats, runs, opLog, loadPre, appended, fault,
                    runStart, prev, run, callLog, backfillVars, hist, other >>
    /\ fetchLog' = Append(fetchLog, << "basic", 0 >>)

fetch_revenue_reporting_basic_retry ==
    /\ pc = "basic_retry"
    /\ \E r \in Answers(AggBodies(date)) :
         /\ response' = r
         /\ netLog' = Append(netLog, Get("api", r.status))
         /\ df' = AggregateResult(r, "basic", utcnow)
    /\ pc' = "basic_ret"
    /\ UNCHANGED << apps, tables, date, force_update, idx, source, csv_response,
                    exists, stats, runs, opLog, loadPre, appended, fault,
                    runStart, prev,
                    run, fetchLog, callLog, backfillVars, hist, other >>

\* ----------------------------------------- fetch_revenue_reporting_network
fetch_revenue_reporting_network_get ==
    /\ pc = "network_get"
    /\ \E r \in Answers(AggBodies(date)) :
         LET b == IF r.status = Raised THEN "return_none" ELSE StatusBranch(r.status) IN
         /\ response' = r
         /\ netLog' = << Get("api", r.status) >>
                      \o ( IF b = "retry_60" THEN << Sleep(RateLimitSleep) >>
                           ELSE IF b = "retry_30" THEN << Sleep(ServerErrorSleep) >>
                           ELSE << >> )
         /\ pc' = IF b \in {"retry_60", "retry_30"} THEN "network_retry" ELSE "network_ret"
         /\ df' = IF b = "proceed" THEN AggregateResult(r, "network_detail", utcnow) ELSE NoneDF
    /\ UNCHANGED << apps, tables, date, force_update, idx, source, csv_response,
                    exists, stats, runs, opLog, loadPre, appended, fault,
                    runStart, prev, run, callLog, backfillVars, hist, other >>
    /\ fetchLog' = Append(fetchLog, << "network", 0 >>)

fetch_revenue_reporting_network_retry ==
    /\ pc = "network_retry"
    /\ \E r \in Answers(AggBodies(date)) :
         /\ response' = r
         /\ netLog' = Append(netLog, Get("api", r.status))
         /\ df' = AggregateResult(r, "network_detail", utcnow)
    /\ pc' = "network_ret"
    /\ UNCHANGED << apps, tables, date, force_update, idx, source, csv_response,
                    exists, stats, runs, opLog, loadPre, appended, fault,
                    runStart, prev,
                    run, fetchLog, callLog, backfillVars, hist, other >>

\* ------------------------------------ aggregate answers for another day
\* A 200 answer whose CSV has a row for a day other than the one asked for
\* (start = end = d): nothing in the fetch compares `day` with the request.
OtherDayBodies(d) ==
    { b \in [hasDay : BOOLEAN, days : BoundedSeq(Dates, MaxRows)] :
        \E j \in 1..Len(b.days) : b.days[j] # d }

fetch_revenue_reporting_basic_get_other_day ==
    /\ pc = "basic_get"
    /\ \E b \in OtherDayBodies(date) :
         /\ response' = [status |-> 200, body |-> b]
         /\ df' = AggregateResult([status |-> 200, body |-> b], "basic", utcnow)
    /\ netLog' = << Get("api", 200) >>
    /\ fetchLog' = Append(fetchLog, << "basic", 0 >>)
    /\ pc' = "basic_ret"
    /\ UNCHANGED << apps, tables, date, force_update, idx, source, csv_response,
                    exists, stats, runs, opLog, loadPre, appended, fault,
                    runStart, prev, run, callLog, backfillVars, hist, other >>

fetch_revenue_reporting_network_get_other_day ==
    /\ pc = "network_get"
    /\ \E b \in OtherDayBodies(date) :
         /\ response' = [status |-> 200, body |-> b]
         /\ df' = AggregateResult([status |-> 200, body |-> b], "network_detail", utcnow)
    /\ netLog' = << Get("api", 200) >>
    /\ fetchLog' = Append(fetchLog, << "network", 0 >>)
    /\ pc' = "network_ret"
    /\ UNCHANGED << apps, tables, date, force_update, idx, source, csv_response,
                    exists, stats, runs, opLog, loadPre, appended, fault,
                    runStart, prev, run, callLog, backfillVars, hist, other >>

\* ----------------------------------------------------------- load_to_bigquery
StorageOp(op, ok) == [op |-> op, key |-> CurrentKey, ok |-> ok]

\* Entry of load_to_bigquery: `if df is None or len(df) == 0: return`.
LoadEntryPc == IF df.none \/ Len(df.rows) = 0 THEN "loaded" ELSE "check"

\* The other invocation is in a forced load of key k, its delete done and its
\* append still to come.
OtherInWindow(k) ==
    /\ other.pc = "append"
    /\ other.force_update
    /\ Len(other.opLog) > 0
    /\ other.opLog[Len(other.opLog)] = [op |-> "delete", key |-> k, ok |-> TRUE]

\* load_to_bigquery_check answering True when the query raises.
load_to_bigquery_check_FailsClosed ==
    /\ pc = "check"
    /\ \E ok \in BOOLEAN :
         LET e == IF ok
                  THEN check_data_exists(tables, TableArg, date, ApplicationArg, PlatformArg)
                  ELSE TRUE
         IN /\ exists' = e
            /\ opLog' = Append(opLog, StorageOp("check", ok))
            /\ fault' = (fault \/ ~ok)
            /\ hist' = [hist EXCEPT !.fault = @ \/ ~ok]
            /\ pc' = IF e /\ ~force_update THEN "loaded"
                     ELSE IF e /\ force_update THEN "delete"
                     ELSE "append"
    /\ UNCHANGED << apps, tables, date, force_update, idx, source, response,
                    csv_response, df, stats, runs, netLog, loadPre, appended,
                    runStart, prev,
                    run, fetchLog, callLog, backfillVars, other >>

\* exists = self.check_data_exists(...), whose query may raise (answered as
\* False), and the two branches on exists and force_update.
load_to_bigquery_check ==
    /\ pc = "check"
    /\ \E ok \in BOOLEAN :
         LET e == IF ok
                  THEN check_data_exists(tables, TableArg, date, ApplicationArg, PlatformArg)
                  ELSE FALSE
         IN /\ exists' = e
            /\ opLog' = Append(opLog, StorageOp("check", ok))
            /\ fault' = (fault \/ ~ok)
            /\ hist' = [hist EXCEPT !.fault = @ \/ ~ok,
                                    !.window = @ \/ (ok /\ ~force_update
                                                     /\ OtherInWindow(CurrentKey))]
            /\ pc' = IF e /\ ~force_update THEN "loaded"
                     ELSE IF e /\ force_update THEN "delete"
                     ELSE "append"
    /\ UNCHANGED << apps, tables, date, force_update, idx, source, response,
                    csv_response, df, stats, runs, netLog, loadPre, appended,
                    runStart, prev,
                    run, fetchLog, callLog, backfillVars, other >>

\* self.delete_date_data(...): the DELETE job may raise, which is swallowed.
load_to_bigquery_delete ==
    /\ pc = "delete"
    /\ \E ok \in BOOLEAN :
         /\ tables' = IF ok
                      THEN delete_date_data(tables, TableArg, date, ApplicationArg, PlatformArg)
                      ELSE tables
         /\ opLog' = Append(opLog, StorageOp("delete", ok))
         /\ fault' = (fault \/ ~ok)
         /\ hist' = [hist EXCEPT !.fault = @ \/ ~ok]
    /\ pc' = "append"
    /\ UNCHANGED << apps, date, force_update, idx, source, response,
                    csv_response, df, exists, stats, runs, netLog, loadPre,
                    appended, runStart, prev,
                    run, fetchLog, callLog, backfillVars, other >>

\* load_to_bigquery_append putting back the rows the call found when its
\* load job fails.
load_to_bigquery_append_RollsBack ==
    /\ pc = "append"
    /\ \E ok \in BOOLEAN :
         /\ tables' = IF ok
                      THEN load_table_from_dataframe(tables, df.rows, TableArg)
                      ELSE loadPre
         /\ opLog' = Append(opLog, StorageOp("append", ok))
         /\ appended' = IF ok THEN Append(appended, CurrentKey) ELSE appended
         /\ fault' = (fault \/ ~ok)
         /\ hist' = [hist EXCEPT !.fault = @ \/ ~ok]
    /\ pc' = "loaded"
    /\ UNCHANGED << apps, date, force_update, idx, source, response,
                    csv_response, df, exists, stats, runs, netLog, loadPre,
                    runStart, prev,
                    run, fetchLog, callLog, backfillVars, other >>

\* The WRITE_APPEND load job inside try/except: a failure is swallowed too.
load_to_bigquery_append ==
    /\ pc = "append"
    /\ \E ok \in BOOLEAN :
         /\ tables' = IF ok
                      THEN load_table_from_dataframe(tables, df.rows, TableArg)
                      ELSE tables
         /\ opLog' = Append(opLog, StorageOp("append", ok))
         /\ appended' = IF ok THEN Append(appended, CurrentKey) ELSE appended
         /\ fault' = (fault \/ ~ok)
         /\ hist' = [hist EXCEPT !.fault = @ \/ ~ok]
    /\ pc' = "loaded"
    /\ UNCHANGED << apps, date, force_update, idx, source, response,
                    csv_response, df, exists, stats, runs, netLog, loadPre,
                    runStart, prev,
                    run, fetchLog, callLog, backfillVars, other >>

\* ------------------------------------------- collect_daily_data, continued
\* `for app in apps`: the next application, or on to Revenue Reporting.
NextApp ==
    IF idx < Len(apps)
    THEN /\ idx' = idx + 1
         /\ source' = "user_level"
         /\ pc' = "ul_get"
    ELSE /\ idx' = 0
         /\ source' = "basic"
         /\ pc' = "basic_get"

FetchLocalsCleared ==
    /\ response' = NoResponse
    /\ csv_response' = NoResponse
    /\ netLog' = << >>

LoadLocalsCleared ==
    /\ df' = NoneDF
    /\ exists' = FALSE
    /\ opLog' = << >>
    /\ loadPre' = EmptyTables

\* collect_user_level without the `else` that counts the application.
collect_user_level_NoDataUncounted ==
    /\ pc = "ul_ret"
    /\ FetchLocalsCleared
    /\ IF ~df.none
       THEN /\ pc' = LoadEntryPc
            /\ loadPre' = tables
            /\ UNCHANGED << stats, idx, source, df >>
       ELSE /\ NextApp
            /\ UNCHANGED << stats, df, loadPre >>
    /\ UNCHANGED << apps, tables, date, force_update, exists, runs, opLog,
                    appended, fault, runStart, prev,
                    run, fetchLog, callLog, backfillVars, hist, other >>

\* fetch_user_level_data has returned: `if df is not None` calls
\* load_to_bigquery, `else` counts the application as no-data.
collect_user_level ==
    /\ pc = "ul_ret"
    /\ FetchLocalsCleared
    /\ IF ~df.none
       THEN /\ pc' = LoadEntryPc
            /\ loadPre' = tables
            /\ UNCHANGED << stats, idx, source, df >>
       ELSE /\ stats' = [stats EXCEPT !.user_level_no_data = @ + 1]
            /\ NextApp
            /\ UNCHANGED << df, loadPre >>
    /\ UNCHANGED << apps, tables, date, force_update, exists, runs, opLog,
                    appended, fault, runStart, prev,
                    run, fetchLog, callLog, backfillVars, hist, other >>

\* load_to_bigquery has returned for an application.
collect_user_level_loaded ==
    /\ pc = "loaded"
    /\ source = "user_level"
    /\ stats' = [stats EXCEPT !.user_level_success = @ + 1]
    /\ NextApp
    /\ LoadLocalsCleared
    /\ UNCHANGED << apps, tables, date, force_update, response, csv_response,
                    runs, netLog, appended, fault, runStart, prev,
                    run, fetchLog, callLog, backfillVars, hist, other >>

\* collect_basic ending the run when the basic fetch returned None.
collect_basic_StopsOnNone ==
    /\ pc = "basic_ret"
    /\ FetchLocalsCleared
    /\ IF ~df.none
       THEN /\ pc' = LoadEntryPc
            /\ loadPre' = tables
       ELSE /\ pc' = "done"
            /\ UNCHANGED loadPre
    /\ UNCHANGED << apps, tables, date, force_update, idx, source, df, exists,
                    stats, runs, opLog, appended, fault, runStart, prev,
                    run, fetchLog, callLog, backfillVars, hist, other >>

\* fetch_revenue_reporting_basic has returned.
collect_basic ==
    /\ pc = "basic_ret"
    /\ FetchLocalsCleared
    /\ IF ~df.none
       THEN /\ pc' = LoadEntryPc
            /\ loadPre' = tables
            /\ UNCHANGED source
       ELSE /\ pc' = "network_get"
            /\ source' = "network"
            /\ UNCHANGED loadPre
    /\ UNCHANGED << apps, tables, date, force_update, idx, df, exists, stats,
                    runs, opLog, appended, fault, runStart, prev,
                    run, fetchLog, callLog, backfillVars, hist, other >>

\* load_to_bigquery has returned for the basic report.
collect_basic_loaded ==
    /\ pc = "loaded"
    /\ source = "basic"
    /\ stats' = [stats EXCEPT !.revenue_basic_success = TRUE]
    /\ pc' = "network_get"
    /\ source' = "network"
    /\ LoadLocalsCleared
    /\ UNCHANGED << apps, tables, date, force_update, idx, response,
                    csv_response, runs, netLog, appended, fault, runStart, prev,
                    run, fetchLog, callLog, backfillVars, hist, other >>

\* fetch_revenue_reporting_network has returned.
collect_network ==
    /\ pc = "network_ret"
    /\ FetchLocalsCleared
    /\ IF ~df.none
       THEN /\ pc' = LoadEntryPc
            /\ loadPre' = tables
       ELSE /\ pc' = "done"
            /\ UNCHANGED loadPre
    /\ UNCHANGED << apps, tables, date, force_update, idx, source, df, exists,
                    stats, runs, opLog, appended, fault, runStart, prev,
                    run, fetchLog, callLog, backfillVars, hist, other >>

\* load_to_bigquery has returned for the network report: `return stats`.
collect_network_loaded ==
    /\ pc = "loaded"
    /\ source = "network"
    /\ stats' = [stats EXCEPT !.revenue_network_success = TRUE]
    /\ pc' = "done"
    /\ LoadLocalsCleared
    /\ UNCHANGED << apps, tables, date, force_update, idx, source, response,
                    csv_response, runs, netLog, appended, fault, runStart, prev,
                    run, fetchLog, callLog, backfillVars, hist, other >>

\* ------------------------------------------------------------- backfill_data
\* Entry of backfill_data(days=n): total_stats with nothing counted, the loop
\* variable before its first value.  (The '/backfill' route passes 45; the
\* day counts explored are 0..NumDates.)
backfill_data(n) ==
    /\ days' = n
    /\ i' = n
    /\ total_stats' = [total_days |-> n, success_days |-> 0, failed_days |-> 0]
    /\ pc' = "bf_loop"
    /\ hist' = [hist EXCEPT !.overlap = @ \/ other.pc # "idle"]
    /\ UNCHANGED << apps, tables, date, force_update, idx, source, response,
                    csv_response, df, exists, stats, runs, netLog, opLog,
                    loadPre, appended, fault, runStart, prev, run, fetchLog,
                    callLog, other >>

\* Route '/backfill'.
backfill ==
    /\ pc = "idle"
    /\ runs < MaxRuns
    /\ \E n \in 0..NumDates : backfill_data(n)

\* backfill_data_loop calling the days newest first.
backfill_data_loop_NewestFirst ==
    /\ pc = "bf_loop"
    /\ i >= 1
    /\ collect_daily_data(Today - (days - i + 1), FALSE)

\* `for i in range(days, 0, -1)`: target_date = today - i days, and the call
\* collect_daily_data(date=target_date, force_update=False).
backfill_data_loop ==
    /\ pc = "bf_loop"
    /\ i >= 1
    /\ collect_daily_data(Today - i, FALSE)

\* dict.get(key, default)
Get_(dict, key, default) == IF key \in DOMAIN dict THEN dict[key] ELSE default

\* The success test of backfill_data on the value collect_daily_data returned.
DaySucceeded(st) ==
    /\ DOMAIN st # {}
    /\ \/ Get_(st, "user_level_success", 0) > 0
       \/ Get_(st, "revenue_basic_success", FALSE)
       \/ Get_(st, "revenue_network_success", FALSE)

\* backfill_data_counted without the `else` that counts a failed day.
backfill_data_counted_SkipsFailed ==
    /\ pc = "done"
    /\ i >= 1
    /\ total_stats' = IF DaySucceeded(stats)
                      THEN [total_stats EXCEPT !.success_days = @ + 1]
                      ELSE total_stats
    /\ i' = i - 1
    /\ pc' = "bf_loop"
    /\ prev' = [date |-> date, force_update |-> force_update]
    /\ stats' = ZeroStats
    /\ source' = None
    /\ idx' = 0
    /\ date' = 0
    /\ force_update' = FALSE
    /\ appended' = << >>
    /\ fault' = FALSE
    /\ runStart' = EmptyTables
    /\ run' = 0
    /\ fetchLog' = << >>
    /\ UNCHANGED << apps, tables, response, csv_response, df, exists, runs,
                    netLog, opLog, loadPre, callLog, days, hist, other >>

\* collect_daily_data has returned to backfill_data: the day is counted as
\* successful or as failed, and the loop goes on.
backfill_data_counted ==
    /\ pc = "done"
    /\ i >= 1
    /\ total_stats' = IF DaySucceeded(stats)
                      THEN [total_stats EXCEPT !.success_days = @ + 1]
                      ELSE [total_stats EXCEPT !.failed_days = @ + 1]
    /\ i' = i - 1
    /\ pc' = "bf_loop"
    /\ prev' = [date |-> date, force_update |-> force_update]
    /\ stats' = ZeroStats
    /\ source' = None
    /\ idx' = 0
    /\ date' = 0
    /\ force_update' = FALSE
    /\ appended' = << >>
    /\ fault' = FALSE
    /\ runStart' = EmptyTables
    /\ run' = 0
    /\ fetchLog' = << >>
    /\ UNCHANGED << apps, tables, response, csv_response, df, exists, runs,
                    netLog, opLog, loadPre, callLog, days, hist, other >>

\* The loop is over: `return total_stats`.
backfill_data_return ==
    /\ pc = "bf_loop"
    /\ i = 0
    /\ pc' = "bf_done"
    /\ UNCHANGED << apps, tables, date, force_update, idx, source, response,
                    csv_response, df, exists, stats, runs, netLog, opLog,
                    loadPre, appended, fault, runStart, prev, run, fetchLog,
                    callLog, backfillVars, hist, other >>

\* The '/backfill' route handler returns.
backfill_return ==
    /\ pc = "bf_done"
    /\ pc' = "idle"
    /\ days' = 0
    /\ total_stats' = NoTotalStats
    /\ callLog' = << >>
    /\ UNCHANGED << apps, tables, date, force_update, idx, source, response,
                    csv_response, df, exists, stats, runs, netLog, opLog,
                    loadPre, appended, fault, runStart, prev, run, fetchLog,
                    i, hist, other >>

\* ------------------------------------------------------------ specification
Next ==
    \/ run_collection
    \/ force_update_route
    \/ route_return
    \/ fetch_user_level_data_get
    \/ fetch_user_level_data_retry
    \/ fetch_user_level_data_csv
    \/ collect_user_level
    \/ collect_user_level_loaded
    \/ fetch_revenue_reporting_basic_get
    \/ fetch_revenue_reporting_basic_retry
    \/ collect_basic
    \/ collect_basic_loaded
    \/ fetch_revenue_reporting_network_get
    \/ fetch_revenue_reporting_network_retry
    \/ collect_network
    \/ collect_network_loaded
    \/ load_to_bigquery_check
    \/ load_to_bigquery_delete
    \/ load_to_bigquery_append

Spec == Init /\ [][Next]_vars

\* A single invocation of either route on the freshly constructed collector:
\* every fetch, every answer and every storage outcome of one Daily run.
first_run_collection == runs = 0 /\ run_collection
first_force_update_route == runs = 0 /\ force_update_route

NextOneRun ==
    \/ first_run_collection
    \/ first_force_update_route
    \/ route_return
    \/ fetch_user_level_data_get
    \/ fetch_user_level_data_retry
    \/ fetch_user_level_data_csv
    \/ collect_user_level
    \/ collect_user_level_loaded
    \/ fetch_revenue_reporting_basic_get
    \/ fetch_revenue_reporting_basic_retry
    \/ collect_basic
    \/ collect_basic_loaded
    \/ fetch_revenue_reporting_network_get
    \/ fetch_revenue_reporting_network_retry
    \/ collect_network
    \/ collect_network_loaded
    \/ load_to_bigquery_check
    \/ load_to_bigquery_delete
    \/ load_to_bigquery_append

SpecOneRun == Init /\ [][NextOneRun]_vars

\* A single invocation of any of the three routes.
first_backfill == runs = 0 /\ backfill

NextOneInvocation ==
    \/ NextOneRun
    \/ first_backfill
    \/ backfill_data_loop
    \/ backfill_data_counted
    \/ backfill_data_return
    \/ backfill_return

SpecOneInvocation == Init /\ [][NextOneInvocation]_vars

\* The collector constructed with a registry of at most one application.
InitOneApp == Init /\ Len(apps) <= 1

\* A single invocation of any of the three routes over such a registry.
SpecBackfill == InitOneApp /\ [][NextOneInvocation]_vars

\* A single Daily run against an upstream that may answer an aggregate
\* request with rows of another day.
NextAnyDay ==
    \/ NextOneRun
    \/ fetch_revenue_reporting_basic_get_other_day
    \/ fetch_revenue_reporting_network_get_other_day

SpecAnyDay == Init /\ [][NextAnyDay]_vars

\* Up to MaxRuns calls of collect_daily_data made by Daily, forced Daily and
\* Backfill invocations, one invocation after the other, over a registry of
\* at most one application.
NextSerial ==
    \/ Next
    \/ backfill
    \/ backfill_data_loop
    \/ backfill_data_counted
    \/ backfill_data_return
    \/ backfill_return

SpecSerial == InitOneApp /\ [][NextSerial]_vars

\* The same invocations against an upstream that may answer an aggregate
\* request with rows of another day.
NextSerialAnyDay ==
    \/ NextSerial
    \/ fetch_revenue_reporting_basic_get_other_day
    \/ fetch_revenue_reporting_network_get_other_day

SpecSerialAnyDay == InitOneApp /\ [][NextSerialAnyDay]_vars

\* ------------------------------------------------- overlapping invocations
\* The locals of the invocation taking steps.
Locals ==
    [ pc |-> pc, date |-> date, force_update |-> force_update, idx |-> idx,
      source |-> source, response |-> response, csv_response |-> csv_response,
      df |-> df, exists |-> exists, stats |-> stats, netLog |-> netLog,
      opLog |-> opLog, loadPre |-> loadPre, appended |-> appended,
      fault |-> fault, runStart |-> runStart, run |-> run,
      fetchLog |-> fetchLog, callLog |-> callLog, days |-> days, i |-> i,
      total_stats |-> total_stats ]

\* Two requests are served at once (the service holds no lock): the other
\* invocation takes the next steps.  The handlers share only the tables, so
\* the invocations are switched where the next step is a storage operation
\* or the start of a handler; the steps between two such points touch the
\* invocation's locals only and commute with the other invocation's steps.
switch ==
    /\ pc \in {"idle", "check", "delete", "append"}
    /\ other' = Locals
    /\ pc' = other.pc
    /\ date' = other.date
    /\ force_update' = other.force_update
    /\ idx' = other.idx
    /\ source' = other.source
    /\ response' = other.response
    /\ csv_response' = other.csv_response
    /\ df' = other.df
    /\ exists' = other.exists
    /\ stats' = other.stats
    /\ netLog' = other.netLog
    /\ opLog' = other.opLog
    /\ loadPre' = other.loadPre
    /\ appended' = other.appended
    /\ fault' = other.fault
    /\ runStart' = other.runStart
    /\ run' = other.run
    /\ fetchLog' = other.fetchLog
    /\ callLog' = other.callLog
    /\ days' = other.days
    /\ i' = other.i
    /\ total_stats' = other.total_stats
    /\ UNCHANGED << apps, tables, runs, prev, hist >>

\* Up to MaxRuns invocations of '/' and '/force-update', two of which may
\* overlap, over a registry of at most one application.
NextOverlap ==
    \/ Next
    \/ switch

SpecOverlap == InitOneApp /\ [][NextOverlap]_vars

\* =================================================================== claims
\* IngestionKeys: (table, report_date, application, platform) for the per-app
\* table, (table, report_date) for the aggregate table.
UserLevelKeys ==
    { << "user_level_ad_revenue", d, a.package, a.platform >> :
        d \in Dates, a \in AppEntries }
AggregateKeys == { << "revenue_reporting", d, None, None >> : d \in Dates }
IngestionKeys == UserLevelKeys \cup AggregateKeys

\* The rows stored for a key.
KeyRows(tbl, k) ==
    IF k[1] = "user_level_ad_revenue"
    THEN { r \in tbl[k[1]] : /\ r.report_date = k[2]
                             /\ r.application = k[3]
                             /\ r.platform = k[4] }
    ELSE { r \in tbl[k[1]] : r.report_date = k[2] }

RowCount(tbl, k) == Cardinality(KeyRows(tbl, k))

\* A Daily run with force_update=false has just returned, and the run before
\* it was a Daily run with force_update=false for the same date.
SecondPlainRunDone ==
    /\ pc = "done"
    /\ ~force_update
    /\ prev.date = date
    /\ ~prev.force_update

\* C1: running the Daily pipeline twice for the same date with
\* force_update=false leaves the number of rows stored for a key after the
\* second run equal to the number after the first run.  Stated for the keys
\* the first run left with rows, for which the second run has to be a no-op
\* whatever the upstream answers.
C1_SecondRunKeepsRowCount ==
    SecondPlainRunDone =>
        \A k \in IngestionKeys :
            RowCount(runStart, k) > 0 => RowCount(tables, k) = RowCount(runStart, k)

\* load_to_bigquery has returned from a call made with force_update=true for
\* a key that had rows when it was called.
ForcedLoadReturned ==
    /\ pc = "loaded"
    /\ force_update
    /\ ~df.none
    /\ KeyRows(loadPre, CurrentKey) # {}

\* C2: a write with force_update=true for a key that already has rows
\* replaces them: when load_to_bigquery returns, none of the rows stored for
\* the key before the call remain and every row of the new batch is stored
\* for the key.
C2_ForcedWriteReplaces ==
    ForcedLoadReturned =>
        /\ KeyRows(loadPre, CurrentKey) \cap tables[TableArg] = {}
        /\ SeqToSet(df.rows) \subseteq KeyRows(tables, CurrentKey)

\* A Daily run has returned in which both aggregate fetches returned a batch
\* and no storage operation failed.
BothAggregatesFetched ==
    /\ pc = "done"
    /\ Len(apps) > 0
    /\ stats.revenue_basic_success
    /\ stats.revenue_network_success
    /\ ~fault

\* C3: after a Daily run in which both aggregate fetches return non-empty
\* batches and every storage operation succeeds, revenue_reporting holds for
\* the run's date rows with query_type 'basic' and rows with query_type
\* 'network_detail'.
C3_BothQueryTypesStored ==
    BothAggregatesFetched =>
        /\ \E r \in tables["revenue_reporting"] :
               r.report_date = date /\ r.query_type = "basic"
        /\ \E r \in tables["revenue_reporting"] :
               r.report_date = date /\ r.query_type = "network_detail"

\* C4: processing one key never changes the rows stored for another key; in
\* particular a load_to_bigquery call for one (date, application, platform)
\* of the per-app table leaves the rows of every sibling application and
\* platform as they were when the call began, for every registry entry.
\* Stated for the runs in which no storage operation has failed.
C4_SiblingRowsUntouched ==
    (pc \in {"check", "delete", "append", "loaded"} /\ source = "user_level" /\ ~fault) =>
        \A k \in UserLevelKeys \ {CurrentKey} :
            KeyRows(tables, k) = KeyRows(loadPre, k)

AppendCount(k) == Cardinality({ j \in 1..Len(appended) : appended[j] = k })

\* C5: within one Daily run with force_update=false at most one append
\* succeeds per IngestionKey.
C5_OneAppendPerKey ==
    (pc # "idle" /\ ~force_update) =>
        \A k \in IngestionKeys : AppendCount(k) <= 1

\* The requests the fetch in progress has sent to the reporting endpoint and
\* to the CSV URL.
IsApiGet(e) == e.ev = "get" /\ e.url = "api"
IsCsvGet(e) == e.ev = "get" /\ e.url = "csv"
ApiGets == SelectSeq(netLog, IsApiGet)
CsvGets == SelectSeq(netLog, IsCsvGet)
ApiStatuses == [ j \in 1..Len(ApiGets) |-> ApiGets[j].status ]

\* A fetch has returned to collect_daily_data.
Returned == pc \in {"ul_ret", "basic_ret", "network_ret"}

\* The user-level fetch has returned after an answer without any pointer
\* field, or after a CSV of zero rows.
EmptyAnswer ==
    /\ pc = "ul_ret"
    /\ response.status = 200
    /\ \/ DataSource(response.body) = None
       \/ csv_response.status = 200 /\ csv_response.body = 0

\* C6: when the user-level answer has none of the three pointer fields, or
\* the CSV has zero rows, the fetch returns None, collect_daily_data goes on
\* to the next source without any storage operation, and counts the
\* application in user_level_no_data and in no other counter.
C6_EmptyIsNoData ==
    [][ EmptyAnswer =>
          /\ df.none
          /\ pc' \in {"ul_get", "basic_get"}
          /\ tables' = tables
          /\ opLog' = << >>
          /\ stats' = [stats EXCEPT !.user_level_no_data = @ + 1] ]_vars

C6_Witness ==
    /\ pc = "ul_ret"
    /\ response.status = 200
    /\ DataSource(response.body) # None
    /\ csv_response.status = 200
    /\ csv_response.body = 0
    /\ stats.user_level_no_data = 0

\* C7: at most two requests go to the endpoint per fetch; a 429 first answer
\* is followed by a 60 s sleep and exactly one more request, a >= 500 first
\* answer by a 30 s sleep and exactly one more request, a 401 or 403 first
\* answer by nothing, the fetch returning None; a second answer that is not
\* a 2xx makes the fetch return None.
C7_RetryPolicy ==
    /\ Len(ApiGets) <= 2
    /\ Returned =>
         /\ Len(ApiGets) >= 1
         /\ ApiStatuses[1] = 429 =>
              /\ Len(ApiGets) = 2
              /\ SubSeq(netLog, 1, 3) = << Get("api", 429), Sleep(60), ApiGets[2] >>
         /\ ApiStatuses[1] >= 500 =>
              /\ Len(ApiGets) = 2
              /\ SubSeq(netLog, 1, 3)
                   = << Get("api", ApiStatuses[1]), Sleep(30), ApiGets[2] >>
         /\ ApiStatuses[1] \in {401, 403} =>
              /\ netLog = << Get("api", ApiStatuses[1]) >>
              /\ df.none
         /\ (Len(ApiGets) = 2 /\ ApiStatuses[2] # 200) =>
              /\ df.none
              /\ Len(netLog) = 3

C7_Witness ==
    /\ pc = "network_ret"
    /\ ApiStatuses = << 429, 500 >>
    /\ df.none

\* C8: a 429 or a >= 500 answer to the CSV download is retried once after
\* the sleep: the fetch does not return before a second download request.
C8_CsvDownloadRetried ==
    ( /\ pc = "ul_ret"
      /\ Len(CsvGets) >= 1
      /\ (CsvGets[1].status = 429 \/ CsvGets[1].status >= 500) ) =>
        Len(CsvGets) = 2

\* Rows without their loaded_at stamp.
NoStamp(rows) == [ j \in 1..Len(rows) |-> [rows[j] EXCEPT !.loaded_at = 0] ]

\* What the fetch in progress returns for an immediate 200 with the bodies
\* it was answered with.
ImmediateResult ==
    IF source = "user_level"
    THEN IF DataSource(response.body) = None THEN NoneDF
         ELSE UserLevelResult(csv_response, date, apps[idx].package,
                              apps[idx].platform, utcnow, DataSource(response.body))
    ELSE AggregateResult(response,
                         IF source = "basic" THEN "basic" ELSE "network_detail",
                         utcnow)

\* C9: a 429 answered by a 200 on the retry yields what an immediate 200
\* with the same body yields: the same rows (loaded_at aside) and the same
\* data_source; for the user-level fetch the CSV is downloaded exactly when
\* the body names a pointer field.
C9_RetryEquivalent ==
    (Returned /\ ApiStatuses = << 429, 200 >>) =>
        /\ df.none = ImmediateResult.none
        /\ df.data_source = ImmediateResult.data_source
        /\ NoStamp(df.rows) = NoStamp(ImmediateResult.rows)
        /\ source = "user_level" =>
             Len(CsvGets) = (IF DataSource(response.body) = None THEN 0 ELSE 1)

C9_Witness ==
    /\ pc = "ul_ret"
    /\ ApiStatuses = << 429, 200 >>
    /\ ~df.none
    /\ df.data_source = "url"

\* The user-level fetch has returned after a 401 or 403, or after a retry
\* whose answer was an error status.
UpstreamError ==
    /\ pc = "ul_ret"
    /\ \/ ApiStatuses[1] \in {401, 403}
       \/ Len(ApiGets) = 2 /\ ApiStatuses[2] \in Statuses \ {200}

\* C10: an application whose user-level fetch fails with an upstream error
\* is counted in user_level_failed, and in no other counter.
C10_FailureCounted ==
    [][ UpstreamError => stats' = [stats EXCEPT !.user_level_failed = @ + 1] ]_vars

\* load_to_bigquery has returned after an append whose load job failed.
AppendFailed ==
    /\ pc = "loaded"
    /\ Len(opLog) > 0
    /\ opLog[Len(opLog)].op = "append"
    /\ ~opLog[Len(opLog)].ok

\* C11: when the append of a source's batch fails, collect_daily_data does
\* not count that source as succeeded (user_level_success is not incremented,
\* revenue_basic_success / revenue_network_success stays as it was), and goes
\* on to the next source of the run.
C11_WriteFailureNotCounted ==
    [][ AppendFailed =>
          /\ stats' = stats
          /\ pc' \in {"ul_get", "basic_get", "network_get", "done"} ]_vars

\* The fetches of a Daily run: the user-level fetch of every registered
\* application in registry order, then the basic and the network report.
ExpectedFetches ==
    [ j \in 1..Len(apps) |-> << "user_level", j >> ]
        \o << << "basic", 0 >>, << "network", 0 >> >>

IsPrefix(s, t) == Len(s) <= Len(t) /\ s = SubSeq(t, 1, Len(s))

\* C12 as stated: for every registry, when a Daily run returns it has
\* attempted the user-level fetch of every application in registry order,
\* then the basic fetch, then the network fetch, each exactly once.
C12_AllSourcesAttempted ==
    pc = "done" => fetchLog = ExpectedFetches

\* C12, for a registry that is not empty: whatever fetches and loads failed,
\* the fetches attempted so far are an initial part of that order, and all of
\* it when the run returns.
C12_AllSourcesAttemptedNonEmpty ==
    /\ pc # "idle" => IsPrefix(fetchLog, ExpectedFetches)
    /\ (pc = "done" /\ Len(apps) > 0) => fetchLog = ExpectedFetches

\* A run over two applications has returned after a fetch that returned
\* None, a failed storage operation and a basic report that was not loaded.
C12_Witness ==
    /\ pc = "done"
    /\ Len(apps) = 2
    /\ stats.user_level_no_data = 1
    /\ fault
    /\ ~stats.revenue_basic_success
    /\ fetchLog = ExpectedFetches

\* C13: when backfill_data(N) returns, success_days + failed_days = N =
\* total_days; inside the loop the two counts add up to the days already
\* processed.
C13_EveryDayCountedOnce ==
    /\ pc = "bf_loop" =>
         total_stats.success_days + total_stats.failed_days = days - i
    /\ pc = "bf_done" =>
         /\ total_stats.success_days + total_stats.failed_days = days
         /\ total_stats.total_days = days

\* backfill_data(2) has returned with one successful and one failed day.
C13_Witness ==
    /\ pc = "bf_done"
    /\ days = 2
    /\ total_stats.success_days = 1
    /\ total_stats.failed_days = 1

\* C14: backfill_data counts a day as successful exactly when an append of
\* that day's Daily run succeeded, and as failed when the run wrote no batch
\* to storage.
C14_SuccessIffBatchLoaded ==
    [][ (pc = "done" /\ i >= 1) =>
          IF appended # << >>
          THEN total_stats' = [total_stats EXCEPT !.success_days = @ + 1]
          ELSE total_stats' = [total_stats EXCEPT !.failed_days = @ + 1] ]_vars

\* The collect_daily_data calls of backfill_data(days): today - days, ...,
\* today - 1, each with force_update=False.
BackfillCalls == [ j \in 1..days |-> << Today - days + j - 1, FALSE >> ]

\* The invocation in progress is a Backfill.
InBackfill == pc \in {"bf_loop", "bf_done"} \/ i >= 1

\* C19: backfill_data(N) calls collect_daily_data once for each of the dates
\* today-N, ..., today-1, oldest first, each time with force_update=false,
\* and no delete is issued during a Backfill.
C19_BackfillOldestFirstNoDelete ==
    InBackfill =>
        /\ IsPrefix(callLog, BackfillCalls)
        /\ pc = "bf_loop" => Len(callLog) = days - i
        /\ pc = "bf_done" => callLog = BackfillCalls
        /\ ~force_update
        /\ pc # "delete"
        /\ \A j \in 1..Len(opLog) : opLog[j].op # "delete"

\* backfill_data(2) has returned after two Daily runs that both stored rows.
C19_Witness ==
    /\ pc = "bf_done"
    /\ days = 2
    /\ callLog = << << Today - 2, FALSE >>, << Today - 1, FALSE >> >>
    /\ \A d \in {Today - 2, Today - 1} :
         \E r \in tables["revenue_reporting"] : r.report_date = d

\* The structured statistics record: three counts and two booleans.
StatsRecord(st) ==
    /\ DOMAIN st = { "user_level_success", "user_level_failed",
                     "user_level_no_data", "revenue_basic_success",
                     "revenue_network_success" }
    /\ st.user_level_success \in Nat
    /\ st.user_level_failed \in Nat
    /\ st.user_level_no_data \in Nat
    /\ st.revenue_basic_success \in BOOLEAN
    /\ st.revenue_network_success \in BOOLEAN

\* A Daily run is between its entry and its return.
RunInProgress == pc \notin {"idle", "done", "bf_loop", "bf_done"}

\* C15 as stated: for every registry, collect_daily_data returns the
\* statistics record of three counts and two booleans.
C15_ReturnsStatsRecord ==
    pc = "done" => StatsRecord(stats)

\* C15, with the empty registry set apart: a run in progress always has a
\* next step (no upstream or storage failure stops it short of its return),
\* and it returns the statistics record when the registry is not empty and
\* the record {success: False, message} when it is.
C15_ReturnsStatsRecordNonEmpty ==
    /\ RunInProgress => ENABLED NextOneRun
    /\ pc = "done" =>
         IF Len(apps) > 0 THEN StatsRecord(stats) ELSE stats = NoAppsResult

\* A run over two applications has returned its record after an upstream
\* failure and a storage failure.
C15_Witness ==
    /\ pc = "done"
    /\ Len(apps) = 2
    /\ fault
    /\ stats.user_level_success = 1
    /\ stats.user_level_no_data = 1
    /\ stats.revenue_network_success

\* The batches a key holds rows of: a batch is known by its loaded_at.
Batches(tbl, k) == { r.loaded_at : r \in KeyRows(tbl, k) }

\* Both invocations have run to their end, the second one just now.
BothFinished ==
    /\ pc = "done"
    /\ other.pc = "idle"
    /\ runs = 2
    /\ prev.date = date

CheckInWindow ==
    /\ pc = "check"
    /\ ~force_update
    /\ OtherInWindow(CurrentKey)
    /\ KeyRows(tables, CurrentKey) = {}
    /\ Truthy(CurrentKey[3]) \/ CurrentKey[1] = "revenue_reporting"
    /\ other' = other
    /\ opLog' = Append(opLog, StorageOp("check", TRUE))

\* The step is the delete of a forced load, and its DELETE job succeeds.
DeleteSucceeds ==
    /\ pc = "delete"
    /\ other' = other
    /\ opLog' = Append(opLog, StorageOp("delete", TRUE))

\* C17: a successful delete of a forced load leaves the key with zero rows
\* until the append (the window); a force_update=false existence check that
\* runs in the window finds the key absent and goes on to append its batch.
C17_EmptyWindow ==
    [][ /\ DeleteSucceeds =>
             /\ KeyRows(tables', CurrentKey) = {}
             /\ pc' = "append"
        /\ CheckInWindow =>
             /\ exists' = FALSE
             /\ pc' = "append"
             /\ tables' = tables ]_vars

\* A forced run and an overlapping force_update=false run have finished; the
\* latter's existence check ran in the window of a key that had rows, no
\* storage operation failed, and the key holds both batches.
C17_Witness ==
    /\ BothFinished
    /\ hist.window
    /\ ~hist.fault
    /\ force_update # prev.force_update
    /\ Cardinality(Batches(tables, << "revenue_reporting", date, None, None >>)) = 2

\* load_to_bigquery has returned after an append that succeeded.
AppendSucceeded ==
    /\ pc = "loaded"
    /\ Len(opLog) > 0
    /\ opLog[Len(opLog)] = StorageOp("append", TRUE)

\* C18: every record of the batch a fetch returns carries the request's date
\* as report_date, so that the rows appended under a key are rows of that
\* key, found by its existence check.
C18_ReportDateFromRequest ==
    /\ (Returned /\ ~df.none) =>
         \A j \in 1..Len(df.rows) : df.rows[j].report_date = date
    /\ AppendSucceeded =>
         /\ SeqToSet(df.rows) \subseteq KeyRows(tables, CurrentKey)
         /\ check_data_exists(tables, TableArg, date, ApplicationArg, PlatformArg)

\* The storage operations of the load_to_bigquery call in progress, in order.
OpNames == [ j \in 1..Len(opLog) |-> opLog[j].op ]

\* Whether rows were stored for the call's key when the call began.
RowsExisted ==
    check_data_exists(loadPre, TableArg, date, ApplicationArg, PlatformArg)

\* C20: for a non-empty batch load_to_bigquery performs, after its existence
\* query, exactly the operations of the gate decision: none when rows exist
\* and force_update is false; one delete, then one append, when rows exist
\* and force_update is true; one append and no delete when no rows exist.
C20_GateDecision ==
    (pc = "loaded" /\ ~df.none /\ Len(df.rows) > 0) =>
        OpNames = ( IF RowsExisted /\ ~force_update THEN << "check" >>
                    ELSE IF RowsExisted /\ force_update
                         THEN << "check", "delete", "append" >>
                    ELSE << "check", "append" >> )

\* C21: when the invocations run one at a time and no storage operation has
\* failed, every IngestionKey of the per-app table and every IngestionKey of
\* the aggregate table holds the rows of at most one appended batch, after
\* any sequence of Daily, forced Daily and Backfill runs.
C21_AtMostOneBatchPerKey ==
    ~hist.fault =>
        /\ \A k \in UserLevelKeys : Cardinality(Batches(tables, k)) <= 1
        /\ \A k \in AggregateKeys : Cardinality(Batches(tables, k)) <= 1

\* The applications counted so far in one of the three user-level counters.
UserLevelCounted ==
    stats.user_level_success + stats.user_level_failed + stats.user_level_no_data

\* C22: in a Daily run over a non-empty registry every application is counted
\* exactly once, in exactly one of user_level_success, user_level_failed and
\* user_level_no_data: while application idx is processed the three counters
\* add up to idx - 1, and from the end of the loop to the return of the run
\* they add up to the number of registered applications.
C22_CountersSumToApps ==
    (Len(apps) > 0 /\ pc \notin {"idle", "bf_loop", "bf_done"}) =>
        /\ source = "user_level" => UserLevelCounted = idx - 1
        /\ source \in {"basic", "network"} => UserLevelCounted = Len(apps)
        /\ pc = "done" => UserLevelCounted = Len(apps)

\* A run over two applications has returned with one application loaded and
\* one without data.
C22_Witness ==
    /\ pc = "done"
    /\ Len(apps) = 2
    /\ stats.user_level_success = 1
    /\ stats.user_level_no_data = 1
    /\ stats.user_level_failed = 0

\* The existence query of the load_to_bigquery call in progress has raised.
ExistenceQueryErrored ==
    /\ pc \in {"delete", "append", "loaded"}
    /\ Len(opLog) > 0
    /\ opLog[1] = StorageOp("check", FALSE)

\* C23: when the existence query raises, whatever force_update is, the call
\* goes on as for an absent key: exists is False, no delete is issued, the
\* append is, and when the call returns the rows stored before it are all
\* still stored, with the new batch beside them if its load job succeeded.
C23_QueryErrorMeansAbsent ==
    ExistenceQueryErrored =>
        /\ ~exists
        /\ pc # "delete"
        /\ pc = "append" => OpNames = << "check" >> /\ tables = loadPre
        /\ pc = "loaded" =>
             /\ OpNames = << "check", "append" >>
             /\ tables[TableArg] =
                  loadPre[TableArg]
                    \cup (IF opLog[2].ok THEN SeqToSet(df.rows) ELSE {})

\* A forced load whose existence query raised has returned: the key's old
\* rows and the new batch are both stored.
C23_Witness ==
    /\ pc = "loaded"
    /\ force_update
    /\ opLog = << StorageOp("check", FALSE), StorageOp("append", TRUE) >>
    /\ KeyRows(loadPre, CurrentKey) # {}
    /\ KeyRows(loadPre, CurrentKey) \subseteq KeyRows(tables, CurrentKey)
    /\ SeqToSet(df.rows) \subseteq KeyRows(tables, CurrentKey)

\* C24: in a forced replace nothing is rolled back.  When the delete has
\* succeeded and the append has failed, load_to_bigquery returns with zero
\* rows stored for the key; when the delete has failed, the rows are all
\* still stored, the append is attempted all the same, and after it the
\* table holds them plus the batch if the load job succeeded.
C24_NoRollback ==
    /\ ( /\ pc = "loaded"
         /\ opLog = << StorageOp("check", TRUE), StorageOp("delete", TRUE),
                       StorageOp("append", FALSE) >> ) =>
           /\ KeyRows(tables, CurrentKey) = {}
           /\ tables = delete_date_data(loadPre, TableArg, date,
                                        ApplicationArg, PlatformArg)
    /\ ( /\ pc \in {"append", "loaded"}
         /\ Len(opLog) >= 2
         /\ opLog[2] = StorageOp("delete", FALSE) ) =>
           /\ pc = "append" => tables = loadPre
           /\ pc = "loaded" =>
                /\ OpNames = << "check", "delete", "append" >>
                /\ tables[TableArg] =
                     loadPre[TableArg]
                       \cup (IF opLog[3].ok THEN SeqToSet(df.rows) ELSE {})

\* A forced load of a key that had rows has returned after a successful
\* delete and a failed append: the key has no rows.
C24_Witness ==
    /\ pc = "loaded"
    /\ force_update
    /\ opLog = << StorageOp("check", TRUE), StorageOp("delete", TRUE),
                  StorageOp("append", FALSE) >>
    /\ KeyRows(loadPre, CurrentKey) # {}
    /\ KeyRows(tables, CurrentKey) = {}

====
